---- MODULE Spec2Model ----
(***************************************************************************)
(* Model of the credential lifecycle of attachments-downloader:            *)
(* src/src/drive/auth.js (loadSavedCredentialsIfExist, saveCredentials,    *)
(* getAccessToken and its callback listener) together with the callers of  *)
(* getAccessToken: main in googleDriveOAuth.js and getEmailById in         *)
(* src/utils.js.  Every `await` of the JavaScript source is a yield point; *)
(* the code between two yield points is one action.  The continuation of   *)
(* an await whose promise is already settled is a microtask: it runs       *)
(* before the event loop delivers any further I/O event.                   *)
(***************************************************************************)
EXTENDS Integers, Sequences, FiniteSets, TLC

\* ---------------------------------------------------------------- bounds
MaxApiCalls == 1   \* invocations of getAccessToken by callers other than the run
MaxReq == 2        \* HTTP requests sent to the redirect port
MaxMsgs == 1       \* message refs returned by the list step of main
MaxEmitted == 2    \* distinct token sets the client emits in 'tokens' events
MaxListCalls == 4  \* list requests one getEmailsInDateRange can issue
MaxPageLen == 2    \* message refs in one page of a list response
MaxKindParts == 2  \* parts of an email the attachment predicates are applied to
MaxMatParts == 2    \* parts of an email handed to downloadAttachments
MaxDownloads == 2   \* calls of downloadAttachments made one after the other
MaxRunMsgs == 3     \* messages that getEmailsInDateRange hands to main

\* The calls of the run are sequential (each is awaited), so they share one
\* record, overwritten when the run enters getAccessToken again; every other
\* caller has a record of its own.
RunSlot == 1
ApiSlots == 2..(1 + MaxApiCalls)
Calls == {RunSlot} \cup ApiSlots
Reqs == 1..MaxReq

\* ------------------------------------------------------------- constants
Free == 0                      \* nobody listens on port 3000
OtherProcess == 0 - 1          \* port 3000 is held by another process
StoredTokens == 1              \* the tokens a previous run left in token.json
NoCreds == 0                   \* oauth2Client without credentials

\* query objects of the requests the listener may receive (url.parse(...).query)
Queries ==
    { [code |-> "", error |-> ""],
      [code |-> "4/abc", error |-> ""],
      [code |-> "", error |-> "access_denied"],
      [code |-> "4/abc", error |-> "invalid_scope"] }
\* outcome of fs.writeFileSync(TOKEN_PATH, ...)
WriteResults == {"ok", "failed"}

\* tokens returned by oauth2Client.getToken for the code of request r
IssuedTokens(r) == StoredTokens + r

\* ----------------------------------------------------------------- state
VARIABLES
    tokenFile,     \* content of TOKEN_PATH
    clientCreds,   \* credentials set on the shared oauth2Client
    portOwner,     \* who is bound on port 3000: Free, OtherProcess or a call
    call,          \* per invocation: caller, position, listener, counters
    req,           \* per HTTP request: its position and the flow it reached
    last,          \* the latest run of the request handler: query, response
    run,           \* position of main (googleDriveOAuth.js)
    ev,            \* the latest 'tokens' event of the client and what its listener did
    col,           \* one invocation of getEmailsInDateRange
    dl,            \* the two passes of main over the messages, and the config
    mat,           \* the current invocation of downloadAttachments
    disk,          \* directories and files under the attachment directories
    bar,           \* the progress bar
    kind           \* one application of the attachment predicates

vars == <<tokenFile, clientCreds, portOwner, call, req, last, run, ev, col, dl, mat, disk, bar, kind>>
authVars == <<tokenFile, clientCreds, portOwner, call, req, last>>
\* the state outside getAccessToken and its callers
pipeVars == <<ev, col, dl, mat, disk, bar, kind>>

NoError == [code |-> "", message |-> <<>>]

FileMissing == [kind |-> "missing", tokens |-> NoCreds]
FileGarbage == [kind |-> "garbage", tokens |-> NoCreds]
FileUnreadable == [kind |-> "unreadable", tokens |-> NoCreds]
FileJson(t) == [kind |-> "json", tokens |-> t]

InitialFiles == {FileMissing, FileGarbage, FileUnreadable, FileJson(StoredTokens)}

IdleCall ==
    [caller |-> "", pc |-> "idle", server |-> "none", loaded |-> "",
     probe |-> "", probes |-> 0, listens |-> 0, opens |-> 0, exchanges |-> 0,
     err |-> NoError, overlap |-> FALSE]

\* c is the call whose listener took the request; once that call's record is
\* overwritten c is Detached and flow keeps how the call ended
Detached == 0 - 2
UnsentReq == [st |-> "unsent", c |-> Detached, flow |-> ""]

\* what one run of the request handler (from an event to the next await) did
HandlerRun(r, c, query) ==
    [r |-> r, c |-> c, query |-> query, resp |-> 0, wrote |-> "", did |-> <<>>]

NoQuery == [code |-> "", error |-> ""]

\* the variables the modules require, in the order of requiredEnvVars
RequiredEnvVars ==
    <<"GOOGLE_CLIENT_ID", "GOOGLE_CLIENT_SECRET", "GOOGLE_REDIRECT_URI">>
EnvNames == {RequiredEnvVars[i] : i \in 1..Len(RequiredEnvVars)}
\* process.env: a variable is absent, set to the empty string, or set
Envs == [EnvNames -> {"absent", "empty", "set"}]
FullEnv == [v \in EnvNames |-> "set"]

\* what main prints at its end (lines 619-624) and in its outer catch (626)
SummaryReport ==
    {"processedEmails", "emailsWithJsonAttachments", "downloadedAttachments",
     "attachmentsDir"}
ErrorReport == {"error.message"}

\* the modules are loaded and main is about to run; status and message are
\* the exit status and the variables named by the startup error, report what
\* main has printed about the run
InitRun ==
    [pc |-> "init", pass |-> 0, idx |-> 0, n |-> 0, bindFailed |-> FALSE,
     env |-> FullEnv, status |-> 0, message |-> <<>>, report |-> {}]

\* no 'tokens' event yet; bit flips with every event
NoEvent == [bit |-> 0, tokens |-> NoCreds, refresh |-> FALSE, wrote |-> "", did |-> <<>>]

\* the process has started: auth.js is loaded, main has not run yet
ClientInit ==
    /\ tokenFile \in InitialFiles
    /\ clientCreds = NoCreds
    /\ portOwner \in {Free, OtherProcess}
    /\ call = [c \in Calls |-> IdleCall]
    /\ req = [r \in Reqs |-> UnsentReq]
    /\ last = HandlerRun(0, 0, NoQuery)

AuthInit ==
    /\ ClientInit
    /\ run = InitRun

\* ------------------------------------------------- strings, parts, emails
\* A string is the sequence of its characters; a path is the sequence of its
\* segments.
DotJson == <<".", "j", "s", "o", "n">>
DotPdf == <<".", "p", "d", "f">>
DotTxt == <<".", "t", "x", "t">>

\* String.prototype.toLowerCase on the letters that occur in the file names
LowerCase ==
    [ch \in {"A", "D", "F", "J", "N", "O", "P", "S", "T"} |->
        CASE ch = "A" -> "a" [] ch = "D" -> "d" [] ch = "F" -> "f"
          [] ch = "J" -> "j" [] ch = "N" -> "n" [] ch = "O" -> "o"
          [] ch = "P" -> "p" [] ch = "S" -> "s" [] ch = "T" -> "t"]

ToLowerCase(s) ==
    [i \in 1..Len(s) |-> IF s[i] \in DOMAIN LowerCase THEN LowerCase[s[i]] ELSE s[i]]

\* String.prototype.endsWith
EndsWith(s, suffix) ==
    /\ Len(s) >= Len(suffix)
    /\ SubSeq(s, Len(s) - Len(suffix) + 1, Len(s)) = suffix

\* a part of email.payload.parts; filename <<>> is a missing or empty
\* filename, attachmentId "" a body without attachmentId
MakePart(filename, attachmentId) ==
    [filename |-> filename, attachmentId |-> attachmentId]

\* an email: hasParts tells whether email.payload.parts is there at all
MakeEmail(parts) == [hasParts |-> TRUE, parts |-> parts]
NoParts == [hasParts |-> FALSE, parts |-> <<>>]

\* `part.filename && part.body.attachmentId`
Qualifies(part) == part.filename # <<>> /\ part.attachmentId # ""

\* `parts.filter(part => part.filename && part.body.attachmentId).length`
RECURSIVE CountQualifying(_)
CountQualifying(parts) ==
    IF parts = <<>> THEN 0
    ELSE (IF Qualifies(Head(parts)) THEN 1 ELSE 0) + CountQualifying(Tail(parts))

hasAttachments(email) ==
    IF ~email.hasParts THEN FALSE
    ELSE \E i \in 1..Len(email.parts) : Qualifies(email.parts[i])

\* the predicate testing the name as it is written
isJsonAttachment_CaseSensitive(part) ==
    IF part.filename = <<>> THEN FALSE
    ELSE EndsWith(part.filename, DotJson)

isJsonAttachment(part) ==
    IF part.filename = <<>> THEN FALSE
    ELSE EndsWith(ToLowerCase(part.filename), DotJson)

hasJsonAttachments(email) ==
    IF ~email.hasParts THEN FALSE
    ELSE \E i \in 1..Len(email.parts) :
            isJsonAttachment(email.parts[i]) /\ email.parts[i].attachmentId # ""

\* ------------------------------------------------------------------ paths
Seg_attachments == <<"a", "t", "t", "a", "c", "h", "m", "e", "n", "t", "s">>
\* config.attachmentsDir: <dir of googleDriveOAuth.js>/attachments/<year>-<month>
AttachmentsDir == <<Seg_attachments, <<"2", "0", "2", "5", "-", "0", "4">>>>
\* path.join(__dirname, 'attachments') in src/utils.js
UtilsAttachments == <<<<"s", "r", "c">>, Seg_attachments>>

\* the segments of a string, cut at "/"
RECURSIVE Split(_)
Split(s) ==
    IF \A i \in 1..Len(s) : s[i] # "/" THEN <<s>>
    ELSE LET i == CHOOSE j \in 1..Len(s) :
                     s[j] = "/" /\ \A l \in 1..(j - 1) : s[l] # "/"
         IN <<SubSeq(s, 1, i - 1)>> \o Split(SubSeq(s, i + 1, Len(s)))

\* path.normalize: empty and "." segments vanish, ".." removes a segment
RECURSIVE Normalize(_, _)
Normalize(done, rest) ==
    IF rest = <<>> THEN done
    ELSE LET h == Head(rest)
         IN IF h = <<>> \/ h = <<".">> THEN Normalize(done, Tail(rest))
            ELSE IF h = <<".", ".">>
            THEN Normalize(IF done = <<>> THEN done
                           ELSE SubSeq(done, 1, Len(done) - 1), Tail(rest))
            ELSE Normalize(Append(done, h), Tail(rest))

\* path.join(dir, name) for a normalized dir
PathJoin(dir, name) == Normalize(dir, Split(name))

\* path.dirname of a normalized path
Dirname(p) == SubSeq(p, 1, Len(p) - 1)

\* -------------------------------------------------- idle values, the disk
\* main not started; impl names the file whose downloadAttachments runs,
\* detailFailed tells that a getEmailById of the first loop threw, failed
\* that some request or write of the run did, details counts the calls of
\* getEmailById and lastDetail tells how the latest one ended
IdleDownload(createSubfolders) ==
    [pc |-> "idle", createSubfolders |-> createSubfolders,
     impl |-> "googleDriveOAuth", messages |-> <<>>,
     pass |-> 0, idx |-> 0, processedEmails |-> 0,
     emailsWithJsonAttachments |-> 0, totalAttachments |-> 0,
     downloadedAttachments |-> 0, detailFailed |-> FALSE, failed |-> FALSE,
     details |-> 0, lastDetail |-> ""]

\* downloadAttachments not called: k is the part whose attachment is being
\* fetched, fetches the number of attachments.get requests of the call,
\* outcome and did what the last fetch ended with and what was done on it,
\* entry what payload.parts of the email of the call was and qualifying how
\* many of its parts have a filename and an attachmentId, threwAt the call
\* that threw out of downloadAttachments, calls the number of calls so far
IdleMat ==
    [pc |-> "idle", email |-> NoParts, entry |-> "", emailId |-> <<>>,
     currentCount |-> 0, attachmentCount |-> 0, k |-> 0, emailDir |-> <<>>,
     result |-> 0,
     fetches |-> 0, outcome |-> "", did |-> <<>>, path |-> <<>>,
     qualifying |-> 0, threwAt |-> "", calls |-> 0]

\* config.attachmentsDir is created when googleDriveOAuth.js is loaded
EmptyDisk == [dirs |-> {AttachmentsDir, UtilsAttachments}, files |-> {}]

NoBar == [started |-> FALSE, total |-> 0, value |-> 0]

\* getEmailsInDateRange not called
IdleCollect ==
    [pc |-> "idle", pageToken |-> 0, hasMore |-> FALSE, allEmails |-> <<>>,
     sent |-> <<>>, got |-> <<>>, failed |-> FALSE]

\* the attachment predicates are about to be applied to `email`
KindInput(email) ==
    [pc |-> "input", email |-> email,
     hasAttachments |-> FALSE, hasJsonAttachments |-> FALSE]
IdleKind == KindInput(NoParts)

\* nothing of main beyond the authorization is going on
DownloadIdle ==
    /\ dl = IdleDownload(FALSE)
    /\ mat = IdleMat
    /\ disk = EmptyDisk
    /\ bar = NoBar

Init ==
    /\ AuthInit
    /\ ev = NoEvent
    /\ col = IdleCollect
    /\ DownloadIdle
    /\ kind = IdleKind

\* a flow is in flight: the promise of getAccessToken is pending
FlowPending(c) == call[c].pc = "pending"
Listening(c) == call[c].server = "listening"

Settled(c) == call[c].pc \in {"resolved", "rejected"}

\* a continuation is queued as a microtask: `await loadSavedCredentialsIfExist()`
\* returned false, or the getAccessToken awaited by main or getEmailById settled
MicrotaskPending ==
    \/ \E c \in Calls : call[c].pc = "noCreds"
    \/ run.pc \in {"auth", "msgAuth"} /\ Settled(RunSlot)

\* ------------------------------------------------ loadSavedCredentialsIfExist
\* synchronous part: existsSync, readFileSync, JSON.parse, setCredentials and
\* the probe request being issued.  Yields the call record and the client.
\* the load without its outer try/catch: a read or parse error leaves
\* getAccessToken
LoadStart_NoCatch(cr, file) ==
    CASE file.kind = "json" ->
            [cr EXCEPT !.pc = "probing", !.loaded = file.kind, !.probes = @ + 1]
      [] file.kind = "missing" ->
            [cr EXCEPT !.pc = "noCreds", !.loaded = file.kind]
      [] OTHER ->
            [cr EXCEPT !.pc = "rejected", !.loaded = file.kind,
                       !.err = [code |-> "EACCES", message |-> <<>>]]

LoadStart(cr, file) ==
    IF file.kind = "json"
    THEN [cr EXCEPT !.pc = "probing", !.loaded = file.kind, !.probes = @ + 1]
    ELSE [cr EXCEPT !.pc = "noCreds", !.loaded = file.kind]

LoadClient(client, file) ==
    IF file.kind = "json" THEN file.tokens ELSE client

\* getAccessToken is entered by `caller`; c is the record of the call.  The
\* handlers still awaiting an exchange for the call that c held before keep
\* their closure over that call's server and promise.
Enter(caller, c) ==
    /\ call[c].pc \in {"idle", "resolved", "rejected"}
    /\ LET fresh == [IdleCall EXCEPT !.caller = caller,
                        !.overlap = \E d \in Calls : FlowPending(d)]
       IN /\ call' = [call EXCEPT ![c] = LoadStart(fresh, tokenFile)]
          /\ clientCreds' = LoadClient(clientCreds, tokenFile)
    /\ req' = [r \in Reqs |->
                IF req[r].st = "exchanging" /\ req[r].c = c
                THEN [req[r] EXCEPT !.c = Detached, !.flow = call[c].pc]
                ELSE req[r]]
    /\ UNCHANGED <<tokenFile, portOwner, last, pipeVars>>

\* another caller of the exported getAccessToken enters while a flow is
\* pending: the concurrent second call
ApiCall ==
    /\ ~MicrotaskPending
    /\ \E d \in Calls : FlowPending(d)
    /\ \E c \in ApiSlots :
          /\ call[c].pc = "idle"
          /\ \A d \in ApiSlots : d < c => call[d].pc # "idle"
          /\ Enter("api", c)
    /\ UNCHANGED run

\* getAccessToken without the `return` after a successful load
ProbeOk_FallsThrough(c) ==
    /\ ~MicrotaskPending
    /\ call[c].pc = "probing"
    /\ call' = [call EXCEPT ![c].pc = "noCreds", ![c].probe = "ok"]
    /\ UNCHANGED <<tokenFile, clientCreds, portOwner, req, last, run, pipeVars>>

\* drive.files.list({pageSize: 1}) succeeded: return true, getAccessToken returns
ProbeOk(c) ==
    /\ ~MicrotaskPending
    /\ call[c].pc = "probing"
    /\ call' = [call EXCEPT ![c].pc = "resolved", ![c].probe = "ok"]
    /\ UNCHANGED <<tokenFile, clientCreds, portOwner, req, last, run, pipeVars>>

\* the probe without its try/catch: the error leaves getAccessToken
ProbeFail_Throws(c) ==
    /\ ~MicrotaskPending
    /\ call[c].pc = "probing"
    /\ call' = [call EXCEPT ![c].pc = "rejected", ![c].probe = "failed",
                   ![c].err = [code |-> "401", message |-> <<>>]]
    /\ UNCHANGED <<tokenFile, clientCreds, portOwner, req, last, run, pipeVars>>

\* the probe threw: 'Saved credentials are invalid, will refresh', return false
ProbeFail(c) ==
    /\ ~MicrotaskPending
    /\ call[c].pc = "probing"
    /\ call' = [call EXCEPT ![c].pc = "noCreds", ![c].probe = "failed"]
    /\ UNCHANGED <<tokenFile, clientCreds, portOwner, req, last, run, pipeVars>>

\* ------------------------------------------------------------ getAccessToken
BindError == [code |-> "EADDRINUSE", message |-> <<>>]

\* the listening callback: open(authorizeUrl)
OnListening(cr) ==
    [cr EXCEPT !.server = "listening", !.opens = @ + 1]

\* server.on('error'): reject(error)
OnServerError(cr, e) ==
    [cr EXCEPT !.server = "errored",
               !.pc = IF @ = "pending" THEN "rejected" ELSE @,
               !.err = IF cr.pc = "pending" THEN e ELSE @]

\* the promise executor: http.createServer(handler).listen(3000, ...) and
\* server.on('error', ...).  The bind succeeds iff the port is free; node
\* emits 'listening' or 'error' on the next tick, before any other event.
Listen(c) ==
    /\ call[c].pc = "noCreds"
    /\ LET cr == [call[c] EXCEPT !.pc = "pending", !.listens = @ + 1]
       IN IF portOwner = Free
          THEN /\ call' = [call EXCEPT ![c] = OnListening(cr)]
               /\ portOwner' = c
          ELSE /\ call' = [call EXCEPT ![c] = OnServerError(cr, BindError)]
               /\ portOwner' = portOwner
    /\ UNCHANGED <<tokenFile, clientCreds, req, last, run, pipeVars>>

\* ---- the pieces of the request handler, applied in the order of the source
\* to a handler state h = [file, client, port, cr, rq]
SetCredentials(h, t) ==
    [h EXCEPT !.client = t, !.rq.did = Append(@, "setCredentials")]

SaveCredentials(h, t, w) ==
    [h EXCEPT !.file = IF w = "ok" THEN FileJson(t) ELSE @,
              !.rq.wrote = w,
              !.rq.did = Append(@, "saveCredentials")]

Respond(h, status) ==
    [h EXCEPT !.rq.resp = status, !.rq.did = Append(@, "respond")]

ServerClose(h, c) ==
    [h EXCEPT !.cr.server = IF @ = "listening" THEN "closed" ELSE @,
              !.port = IF @ = c THEN Free ELSE @,
              !.rq.did = Append(@, "close")]

Resolve(h) ==
    [h EXCEPT !.cr.pc = IF @ = "pending" THEN "resolved" ELSE @,
              !.rq.did = Append(@, "resolve")]

Reject(h, e) ==
    [h EXCEPT !.cr.pc = IF @ = "pending" THEN "rejected" ELSE @,
              !.cr.err = IF h.cr.pc = "pending" THEN e ELSE @,
              !.rq.did = Append(@, "reject")]

HandlerState(c, r, query) ==
    [file |-> tokenFile, client |-> clientCreds, port |-> portOwner,
     cr |-> IF c = Detached
            THEN [IdleCall EXCEPT !.pc = req[r].flow, !.server = "closed"]
            ELSE call[c],
     rq |-> HandlerRun(r, c, query)]

\* the handler run ends (returns or reaches an await) with request r in `st`
Commit(c, r, h, st) ==
    /\ tokenFile' = h.file
    /\ clientCreds' = h.client
    /\ portOwner' = h.port
    /\ call' = IF c = Detached THEN call ELSE [call EXCEPT ![c] = h.cr]
    /\ req' = [req EXCEPT ![r] = IF st = "exchanging"
                                  THEN [st |-> st, c |-> c, flow |-> ""]
                                  ELSE [st |-> st, c |-> Detached, flow |-> ""]]
    /\ last' = h.rq

AuthError(e) == [code |-> "Error", message |-> <<"Authentication error: ", e>>]
TokenError == [code |-> "invalid_grant", message |-> <<>>]

\* `await oauth2Client.getToken(queryObject.code)` is reached
GetToken(h) ==
    [h EXCEPT !.cr.exchanges = @ + 1, !.rq.did = Append(@, "getToken")]

NextReq(r) == req[r].st = "unsent" /\ \A q \in Reqs : q < r => req[q].st # "unsent"

\* the handler testing `code` before `error`
OnRequest_CodeFirst(r, query) ==
    /\ ~MicrotaskPending
    /\ NextReq(r)
    /\ portOwner \in Calls
    /\ LET c == portOwner
           h == HandlerState(c, r, query)
       IN /\ call[c].server = "listening"
          /\ CASE query.code # "" ->
                    Commit(c, r, GetToken(h), "exchanging")
               [] query.error # "" ->
                    Commit(c, r,
                        Reject(ServerClose(Respond(h, 400), c), AuthError(query.error)),
                        "done")
               [] OTHER ->
                    Commit(c, r, h, "ignored")
    /\ UNCHANGED <<run, pipeVars>>

\* a request reaches the listener bound on the port; the handler up to its
\* first await.  With no listener on the port the connection is refused by
\* the system and no code of the program runs.
OnRequest(r, query) ==
    /\ ~MicrotaskPending
    /\ NextReq(r)
    /\ portOwner \in Calls
    /\ LET c == portOwner
           h == HandlerState(c, r, query)
       IN /\ call[c].server = "listening"
          /\ CASE query.error # "" ->
                    Commit(c, r,
                        Reject(ServerClose(Respond(h, 400), c), AuthError(query.error)),
                        "done")
               [] query.code # "" ->
                    Commit(c, r, GetToken(h), "exchanging")
               [] OTHER ->
                    Commit(c, r, h, "ignored")
    /\ UNCHANGED <<run, pipeVars>>

CodeQuery == [code |-> "4/abc", error |-> ""]

\* oauth2Client.getToken(code) returned tokens; rest of the `code` branch
ExchangeOk(r, w) ==
    /\ ~MicrotaskPending
    /\ req[r].st = "exchanging"
    /\ LET c == req[r].c
           t == IssuedTokens(r)
           h == HandlerState(c, r, CodeQuery)
       IN Commit(c, r,
              Resolve(ServerClose(Respond(
                  SaveCredentials(SetCredentials(h, t), t, w), 200), c)),
              "done")
    /\ UNCHANGED <<run, pipeVars>>

\* oauth2Client.getToken(code) threw; the catch block
ExchangeFail(r) ==
    /\ ~MicrotaskPending
    /\ req[r].st = "exchanging"
    /\ LET c == req[r].c
           h == HandlerState(c, r, CodeQuery)
       IN Commit(c, r, Reject(ServerClose(Respond(h, 500), c), TokenError), "done")
    /\ UNCHANGED <<run, pipeVars>>

\* --------------------------------------------- main (googleDriveOAuth.js)
\* main: `await getAccessToken()` is reached
MainStart ==
    /\ ~MicrotaskPending
    /\ run.pc = "init"
    /\ Enter("main", RunSlot)
    /\ run' = [run EXCEPT !.pc = "auth"]

\* the await of main returns: go on to getEmailsInDateRange, or the outer
\* catch logs the error and main ends
MainAuthDone ==
    /\ run.pc = "auth"
    /\ Settled(RunSlot)
    /\ run' = [run EXCEPT !.pc = IF call[RunSlot].pc = "resolved"
                                 THEN "list" ELSE "aborted",
                          !.bindFailed = call[RunSlot].err = BindError,
                          !.report = IF call[RunSlot].pc = "resolved"
                                     THEN @ ELSE ErrorReport]
    /\ UNCHANGED <<authVars, pipeVars>>

\* the loops of main move to message (pass, idx): getEmailById(message.id) is
\* called and enters getAccessToken; after the second loop main is done
Advance(pass, idx, n, failed) ==
    IF idx <= n
    THEN /\ Enter("getEmailById", RunSlot)
         /\ run' = [run EXCEPT !.pc = "msgAuth", !.pass = pass, !.idx = idx,
                               !.n = n, !.bindFailed = failed]
    ELSE IF pass = 1 /\ n > 0
    THEN /\ Enter("getEmailById", RunSlot)
         /\ run' = [run EXCEPT !.pc = "msgAuth", !.pass = 2, !.idx = 1,
                               !.n = n, !.bindFailed = failed]
    ELSE /\ run' = [run EXCEPT !.pc = "done", !.pass = 2, !.idx = idx,
                               !.n = n, !.bindFailed = failed,
                               !.report = SummaryReport]
         /\ UNCHANGED <<authVars, pipeVars>>

\* getEmailsInDateRange returned n message refs
MainListed(n) ==
    /\ ~MicrotaskPending
    /\ run.pc = "list"
    /\ Advance(1, 1, n, run.bindFailed)

\* getEmailById: `await getAccessToken()` returns; a rejection is rethrown by
\* getEmailById and caught by the try/catch around the message in main
GetEmailByIdAuthDone ==
    /\ run.pc = "msgAuth"
    /\ Settled(RunSlot)
    /\ IF call[RunSlot].pc = "resolved"
       THEN /\ run' = [run EXCEPT !.pc = "msgGet"]
            /\ UNCHANGED <<authVars, pipeVars>>
       ELSE Advance(run.pass, run.idx + 1, run.n,
                    run.bindFailed \/ call[RunSlot].err = BindError)

\* getEmailById: gmail.users.messages.get returned or threw
GetEmailByIdFetched ==
    /\ ~MicrotaskPending
    /\ run.pc = "msgGet"
    /\ Advance(run.pass, run.idx + 1, run.n, run.bindFailed)

Next ==
    \/ ApiCall
    \/ MainStart
    \/ MainAuthDone
    \/ \E n \in 0..MaxMsgs : MainListed(n)
    \/ GetEmailByIdAuthDone
    \/ GetEmailByIdFetched
    \/ \E c \in Calls : ProbeOk(c)
    \/ \E c \in Calls : ProbeFail(c)
    \/ \E c \in Calls : Listen(c)
    \/ \E r \in Reqs, q \in Queries : OnRequest(r, q)
    \/ \E r \in Reqs, w \in WriteResults : ExchangeOk(r, w)
    \/ \E r \in Reqs : ExchangeFail(r)

Spec == Init /\ [][Next]_vars

\* ------------------------------------------- oauth2Client.on('tokens', ...)
\* token sets the client emits after the process has started
EmittedTokens == {StoredTokens + MaxReq + k : k \in 1..MaxEmitted}

\* the listener saving whatever is emitted, without looking at refresh_token
OnTokens_Unconditional(t, refresh, w) ==
    /\ ~MicrotaskPending
    /\ LET h == SaveCredentials([file |-> tokenFile,
                                 rq |-> HandlerRun(0, Detached, NoQuery)], t, w)
       IN /\ tokenFile' = h.file
          /\ ev' = [bit |-> 1 - ev.bit, tokens |-> t, refresh |-> refresh,
                    wrote |-> h.rq.wrote, did |-> h.rq.did]
    /\ UNCHANGED <<clientCreds, portOwner, call, req, last, run, col, dl, mat, disk, bar, kind>>

\* the client emits 'tokens' with token set t; `refresh` tells whether
\* tokens.refresh_token is set, w is the outcome of the write in saveCredentials
OnTokens(t, refresh, w) ==
    /\ ~MicrotaskPending
    /\ LET h0 == [file |-> tokenFile, rq |-> HandlerRun(0, Detached, NoQuery)]
           h == IF refresh THEN SaveCredentials(h0, t, w) ELSE h0
       IN /\ tokenFile' = h.file
          /\ ev' = [bit |-> 1 - ev.bit, tokens |-> t, refresh |-> refresh,
                    wrote |-> h.rq.wrote, did |-> h.rq.did]
    /\ UNCHANGED <<clientCreds, portOwner, call, req, last, run, col, dl, mat, disk, bar, kind>>

\* the process of main up to the list step, with 'tokens' events at any time
TokensNext ==
    \/ \E t \in EmittedTokens, refresh \in BOOLEAN, w \in WriteResults :
           OnTokens(t, refresh, w)
    \/ MainStart
    \/ MainAuthDone
    \/ ProbeOk(RunSlot)
    \/ ProbeFail(RunSlot)
    \/ Listen(RunSlot)
    \/ \E r \in Reqs, q \in Queries : OnRequest(r, q)
    \/ \E r \in Reqs, w \in WriteResults : ExchangeOk(r, w)
    \/ \E r \in Reqs : ExchangeFail(r)

TokensSpec == Init /\ [][TokensNext]_vars

\* ------------------------------- getEmailsInDateRange (googleDriveOAuth.js)
NullToken == 0                 \* `let pageToken = null`
NoToken == 0 - 1               \* a response without nextPageToken (undefined)
EmptyToken == 0 - 2            \* a response whose nextPageToken is ''
\* !!pageToken; a cursor is a positive number
Truthy(token) == token > 0

\* the refs of page k when it has n of them: ids are unique in the mailbox
PageIds(k, n) == [i \in 1..n |-> (k - 1) * MaxPageLen + i]

\* what the list request number k may be answered with; `present` tells
\* whether response.data.messages is there at all
Responses(k) ==
    {[present |-> TRUE, messages |-> PageIds(k, n), nextPageToken |-> t] :
        n \in 0..MaxPageLen, t \in {NoToken, EmptyToken, k}}
    \cup {[present |-> FALSE, messages |-> <<>>, nextPageToken |-> t] :
        t \in {NoToken, EmptyToken, k}}

\* the request asking for the first page every time
SendList_NoCursor(c) == [c EXCEPT !.sent = Append(@, NullToken)]

\* `await gmail.users.messages.list({..., pageToken: pageToken, ...})` is reached
SendList(c) == [c EXCEPT !.sent = Append(@, c.pageToken)]

\* `while (hasMore)` is tested: another request, or `return allEmails`
Loop(c) == IF c.hasMore THEN SendList(c) ELSE [c EXCEPT !.pc = "returned"]

\* the function is called: allEmails = [], pageToken = null, hasMore = true
GetEmailsInDateRange ==
    /\ col.pc = "idle"
    /\ col' = Loop([IdleCollect EXCEPT !.pc = "listing", !.hasMore = TRUE])
    /\ UNCHANGED <<authVars, run, ev, dl, mat, disk, bar, kind>>

\* the loop body going on whenever the response has a cursor
ListResponse_CursorOnly(resp) ==
    /\ col.pc = "listing"
    /\ Len(col.sent) < MaxListCalls
          \/ ~(Truthy(resp.nextPageToken) /\ Len(resp.messages) > 0)
    /\ LET messages == IF resp.present THEN resp.messages ELSE <<>>
       IN col' = Loop([col EXCEPT !.allEmails = @ \o messages,
                                  !.pageToken = resp.nextPageToken,
                                  !.hasMore = Truthy(resp.nextPageToken),
                                  !.got = Append(@, resp)])
    /\ UNCHANGED <<authVars, run, ev, dl, mat, disk, bar, kind>>

\* the list request returned resp: the rest of the try block.  The mailbox
\* has at most MaxListCalls pages.
ListResponse(resp) ==
    /\ col.pc = "listing"
    /\ Len(col.sent) < MaxListCalls
          \/ ~(Truthy(resp.nextPageToken) /\ Len(resp.messages) > 0)
    /\ LET messages == IF resp.present THEN resp.messages ELSE <<>>
           c1 == [col EXCEPT !.allEmails = @ \o messages,
                             !.pageToken = resp.nextPageToken,
                             !.hasMore = Truthy(resp.nextPageToken),
                             !.got = Append(@, resp)]
           c2 == IF Len(messages) = 0 THEN [c1 EXCEPT !.hasMore = FALSE] ELSE c1
       IN col' = Loop(c2)
    /\ UNCHANGED <<authVars, run, ev, dl, mat, disk, bar, kind>>

\* the catch block rethrowing instead of ending the loop
ListFailure_Throws ==
    /\ col.pc = "listing"
    /\ col' = [col EXCEPT !.pc = "threw", !.failed = TRUE]
    /\ UNCHANGED <<authVars, run, ev, dl, mat, disk, bar, kind>>

\* the catch block leaving hasMore as it is: the failed request is sent again
ListFailure_Retries ==
    /\ col.pc = "listing"
    /\ col' = Loop([col EXCEPT !.hasMore = Len(col.sent) < MaxListCalls,
                               !.failed = TRUE])
    /\ UNCHANGED <<authVars, run, ev, dl, mat, disk, bar, kind>>

\* the list request threw: the catch block logs and sets hasMore = false
ListFailure ==
    /\ col.pc = "listing"
    /\ col' = Loop([col EXCEPT !.hasMore = FALSE, !.failed = TRUE])
    /\ UNCHANGED <<authVars, run, ev, dl, mat, disk, bar, kind>>

\* main is authorized; nothing else is going on
Quiet == tokenFile = FileJson(StoredTokens) /\ portOwner = Free

CollectNext ==
    \/ GetEmailsInDateRange
    \/ \E resp \in Responses(Len(col.sent)) : ListResponse(resp)
    \/ ListFailure

\* main is past its authorization
CollectInit == Init /\ Quiet

CollectSpec == CollectInit /\ [][CollectNext]_vars

\* the promise of `await gmail.users.messages.list(...)` settles: the
\* request is answered or it fails
ListSettles ==
    \/ \E resp \in Responses(Len(col.sent)) : ListResponse(resp)
    \/ ListFailure

\* every list request sent is answered or fails in the end
CollectFairSpec == CollectInit /\ [][CollectNext]_vars /\ WF_vars(ListSettles)

\* ----------------------------------- hasAttachments / hasJsonAttachments
Stem_data == <<"d", "a", "t", "a">>
Stem_DATA == <<"D", "A", "T", "A">>

\* file names: none, a stem with ".json" in some spelling and possibly a
\* further extension, and near misses
KindNames ==
    {<<>>, DotJson, <<"j", "s", "o", "n">>, Stem_data \o <<".", "j", "s", "o">>}
    \cup {stem \o ext \o tail :
             stem \in {Stem_data, Stem_DATA},
             ext \in {DotJson, <<".", "J", "S", "O", "N">>, <<".", "J", "s", "o", "n">>},
             tail \in {<<>>, DotTxt}}

KindParts == {MakePart(name, a) : name \in KindNames, a \in {"", "att"}}

\* the sequences over S of length at most n
SeqsUpTo(S, n) == UNION {[1..len -> S] : len \in 0..n}

KindEmails == {NoParts} \cup {MakeEmail(ps) : ps \in SeqsUpTo(KindParts, MaxKindParts)}

\* the predicates are applied to the email
Classify ==
    /\ kind.pc = "input"
    /\ kind' = [kind EXCEPT !.pc = "done",
                            !.hasAttachments = hasAttachments(kind.email),
                            !.hasJsonAttachments = hasJsonAttachments(kind.email)]
    /\ UNCHANGED <<authVars, run, ev, col, dl, mat, disk, bar>>

KindInit ==
    /\ AuthInit /\ Quiet
    /\ ev = NoEvent
    /\ col = IdleCollect
    /\ DownloadIdle
    /\ kind \in {KindInput(email) : email \in KindEmails}

KindNext == Classify

KindSpec == KindInit /\ [][KindNext]_vars

\* ------------------------------------------------------ downloadAttachments
\* the ids of the messages, each message being handed over once
MessageIds == <<<<"A">>, <<"B">>, <<"C">>, <<"D">>>>
Name_report == <<"r", "e", "p", "o", "r", "t">> \o DotPdf
\* a file name that path.join normalises
Name_traversal == <<"/", ".", ".", "/">> \o Name_report

\* the parts of the emails handed to downloadAttachments: two that qualify
\* and one without attachmentId
MatParts ==
    {MakePart(Name_report, "att"), MakePart(Name_traversal, "att"),
     MakePart(Name_report, "")}

MatEmails == {NoParts} \cup {MakeEmail(ps) : ps \in SeqsUpTo(MatParts, MaxMatParts)}

\* q lies below directory p
Under(p, q) == Len(q) > Len(p) /\ SubSeq(q, 1, Len(p)) = p

\* fs.writeFileSync(p, data): the directory of p must be there and p must not
\* be a directory; `from` is the message the data belongs to
WriteFileSync(d, p, from, w) ==
    IF w = "ok" /\ Dirname(p) \in d.dirs /\ p \notin d.dirs
    THEN [threw |-> FALSE,
          disk |-> [d EXCEPT !.files = {f \in @ : f.path # p}
                                          \cup {[path |-> p, from |-> from]}]]
    ELSE [threw |-> TRUE, disk |-> d]

\* fs.mkdirSync(p), not recursive
MkdirSync(d, p, mk) ==
    IF mk = "ok" /\ Dirname(p) \in d.dirs
    THEN [threw |-> FALSE, disk |-> [d EXCEPT !.dirs = @ \cup {p}]]
    ELSE [threw |-> TRUE, disk |-> d]

\* fs.rmdirSync(p) and fs.rmdirSync(p, { recursive: true })
RmdirSync(d, p, recursive, rm) ==
    LET empty == /\ ~\E f \in d.files : Under(p, f.path)
                 /\ ~\E q \in d.dirs : Under(p, q)
    IN IF rm = "ok" /\ p \in d.dirs /\ (recursive \/ empty)
       THEN [threw |-> FALSE,
             disk |-> [dirs |-> {q \in d.dirs : q # p /\ ~Under(p, q)},
                       files |-> {f \in d.files : ~Under(p, f.path)}]]
       ELSE [threw |-> TRUE, disk |-> d]

\* the subfolder of a message: utils.js joins it to its own attachments
\* directory, getemails.js to config.attachmentsDir
SubfolderPath(impl, emailId) ==
    IF impl = "getemails" THEN PathJoin(AttachmentsDir, emailId)
    ELSE PathJoin(UtilsAttachments, emailId)

\* createSubfolder of utils.js, and lines 131-136 of getemails.js. utils.js
\* reads __dirname, which it does not define: mk = "throws" is there the
\* ReferenceError as well as a failing mkdirSync
createSubfolder(impl, d, emailId, mk) ==
    LET p == SubfolderPath(impl, emailId)
        made == MkdirSync(d, p, mk)
    IN IF impl # "getemails" /\ mk = "throws"
       THEN [threw |-> TRUE, disk |-> d, path |-> p]
       ELSE IF p \in d.dirs THEN [threw |-> FALSE, disk |-> d, path |-> p]
       ELSE [threw |-> made.threw, disk |-> made.disk, path |-> p]

\* removeSubfolder of utils.js, and fs.rmdirSync(emailDir) of getemails.js
removeSubfolder(impl, d, emailId, emailDir, rm) ==
    IF impl = "getemails" THEN RmdirSync(d, emailDir, FALSE, rm)
    ELSE IF SubfolderPath(impl, emailId) \in d.dirs
    THEN RmdirSync(d, SubfolderPath(impl, emailId), TRUE, rm)
    ELSE [threw |-> FALSE, disk |-> d]

\* what downloadAttachments works on
World == [mat |-> mat, disk |-> disk, bar |-> bar]

\* the loop testing part.filename only
NextPart_FilenameOnly(email, k) ==
    LET later == {i \in (k + 1)..Len(email.parts) : email.parts[i].filename # <<>>}
    IN IF later = {} THEN 0 ELSE CHOOSE i \in later : \A j \in later : i <= j

\* the next part after k with a filename and an attachmentId, 0 if none
NextPart(email, k) ==
    LET later == {i \in (k + 1)..Len(email.parts) : Qualifies(email.parts[i])}
    IN IF later = {} THEN 0 ELSE CHOOSE i \in later : \A j \in later : i <= j

\* the call is over: its email is no longer held
Ended(w, pc) == [w EXCEPT !.mat.pc = pc, !.mat.k = 0, !.mat.email = NoParts]
\* the call `at` threw and nothing of downloadAttachments catches it
Threw(w, at) == [Ended(w, "threw") EXCEPT !.mat.threwAt = at]

\* the end of the function leaving the subfolder in place
Finish_NoCleanup(w, rm) ==
    [Ended(w, "returned") EXCEPT
        !.mat.result = w.mat.currentCount + w.mat.attachmentCount]

\* lines 517-522: the cleanup of the subfolder and the return
Finish(w, rm) ==
    LET m == w.mat
        rem == IF /\ dl.createSubfolders
                  /\ m.attachmentCount = 0
                  /\ m.emailDir # AttachmentsDir
               THEN removeSubfolder(dl.impl, w.disk, m.emailId, m.emailDir, rm)
               ELSE [threw |-> FALSE, disk |-> w.disk]
    IN IF rem.threw THEN Threw(w, "removeSubfolder")
       ELSE [Ended(w, "returned") EXCEPT
                !.mat.result = m.currentCount + m.attachmentCount,
                !.disk = rem.disk]

\* the for loop from part k on, up to the next `await` or to the return
ForLoop(w, rm) ==
    LET n == NextPart(w.mat.email, w.mat.k)
    IN IF n = 0 THEN Finish(w, rm)
       ELSE [w EXCEPT !.mat.pc = "fetching", !.mat.k = n, !.mat.fetches = @ + 1]

\* the call without the test of hasAttachments
DownloadStart_NoEarlyReturn(w, email, emailId, currentCount, mk) ==
    LET m0 == [IdleMat EXCEPT !.pc = "running", !.email = email,
                              !.entry = IF ~email.hasParts THEN "absent"
                                        ELSE IF email.parts = <<>> THEN "empty"
                                        ELSE "parts",
                              !.qualifying = CountQualifying(email.parts),
                              !.emailId = emailId,
                              !.currentCount = currentCount,
                              !.result = currentCount,
                              !.calls = w.mat.calls + 1]
        sub == IF dl.createSubfolders
               THEN createSubfolder(dl.impl, w.disk, emailId, mk)
               ELSE [threw |-> FALSE, disk |-> w.disk, path |-> AttachmentsDir]
    IN IF sub.threw THEN Threw([w EXCEPT !.mat = m0], "createSubfolder")
       ELSE ForLoop([w EXCEPT !.mat = [m0 EXCEPT !.emailDir = sub.path],
                              !.disk = sub.disk], "ok")

\* lines 464-477: the call up to the first `await` or to the early return;
\* an email that has attachments has a part at which the loop awaits
DownloadStart(w, email, emailId, currentCount, mk) ==
    LET m0 == [IdleMat EXCEPT !.pc = "running", !.email = email,
                              !.entry = IF ~email.hasParts THEN "absent"
                                        ELSE IF email.parts = <<>> THEN "empty"
                                        ELSE "parts",
                              !.qualifying = CountQualifying(email.parts),
                              !.emailId = emailId,
                              !.currentCount = currentCount,
                              !.result = currentCount,
                              !.calls = w.mat.calls + 1]
        sub == IF dl.createSubfolders
               THEN createSubfolder(dl.impl, w.disk, emailId, mk)
               ELSE [threw |-> FALSE, disk |-> w.disk, path |-> AttachmentsDir]
    IN IF ~hasAttachments(email)
       THEN Ended([w EXCEPT !.mat = m0], "returned")
       ELSE IF sub.threw THEN Threw([w EXCEPT !.mat = m0], "createSubfolder")
       ELSE ForLoop([w EXCEPT !.mat = [m0 EXCEPT !.emailDir = sub.path],
                              !.disk = sub.disk], "ok")

\* lines 482-487: the path the part is written to
AttachmentPath(m) ==
    LET part == m.email.parts[m.k]
        filename == IF dl.createSubfolders THEN part.filename
                    ELSE m.emailId \o <<"_">> \o part.filename
    IN PathJoin(m.emailDir, filename)

\* attachmentCount++ and progressBar.update, in this order
Count(w) ==
    [w EXCEPT !.mat.attachmentCount = @ + 1, !.mat.did = Append(@, "count")]
Update(w) ==
    [w EXCEPT !.bar.value = w.mat.currentCount + w.mat.attachmentCount,
              !.mat.did = Append(@, "update")]

\* the try block counting before it writes
TryBody_CountsFirst(w, outcome) ==
    LET w0 == [w EXCEPT !.mat.outcome = outcome, !.mat.did = <<>>,
                        !.mat.path = AttachmentPath(w.mat)]
        w1 == Update(Count(w0))
        wr == WriteFileSync(w1.disk, w1.mat.path, w1.mat.emailId,
                            IF outcome = "ok" THEN "ok" ELSE "throws")
    IN IF outcome = "fetchFailed" THEN w0
       ELSE IF wr.threw THEN w1
       ELSE [w1 EXCEPT !.disk = wr.disk, !.mat.did = Append(@, "write")]

\* lines 493-513: the try block from the answer of attachments.get on; the
\* request fails, or the write fails, or both go well
TryBody(w, outcome) ==
    LET w0 == [w EXCEPT !.mat.outcome = outcome, !.mat.did = <<>>,
                        !.mat.path = AttachmentPath(w.mat)]
        wr == WriteFileSync(w0.disk, w0.mat.path, w0.mat.emailId,
                            IF outcome = "ok" THEN "ok" ELSE "throws")
    IN IF outcome = "fetchFailed" \/ wr.threw THEN w0
       ELSE Update(Count([w0 EXCEPT !.disk = wr.disk,
                                    !.mat.did = Append(@, "write")]))

\* the try without its catch: a failed request or write leaves the function
Attempt_NoCatch(w, outcome, rm) ==
    LET t == TryBody(w, outcome)
    IN IF t.mat.did = <<>> THEN Threw(t, "attachment") ELSE ForLoop(t, rm)

\* lines 493-515: the try block, the catch that only logs, and the loop
\* going on with the next part
Attempt(w, outcome, rm) == ForLoop(TryBody(w, outcome), rm)

Outcomes == {"ok", "fetchFailed", "writeFailed"}
\* what creating and removing a subfolder can end with, where the policy
\* has subfolders
FsOutcomes == IF dl.createSubfolders THEN {"ok", "throws"} ELSE {"ok"}

\* downloadAttachments(email, emailId, currentCount, progressBar) is called
\* with the count the last call left
DownloadAttachments(email, mk) ==
    /\ mat.pc \in {"idle", "returned", "threw"}
    /\ mat.calls < MaxDownloads
    /\ mat.calls < Len(MessageIds)
    /\ LET w == DownloadStart(World, email, MessageIds[mat.calls + 1],
                              mat.result, mk)
       IN mat' = w.mat /\ disk' = w.disk /\ bar' = w.bar
    /\ UNCHANGED <<authVars, run, ev, col, dl, kind>>

\* attachments.get answers or fails
AttachmentFetched(outcome, rm) ==
    /\ mat.pc = "fetching"
    /\ LET w == Attempt(World, outcome, rm)
       IN mat' = w.mat /\ disk' = w.disk /\ bar' = w.bar
    /\ UNCHANGED <<authVars, run, ev, col, dl, kind>>

\* what an earlier run left in the subfolder of the first message
Earlier == <<"earlier">>
EarlierDisk(impl) ==
    LET p == SubfolderPath(impl, MessageIds[1])
    IN [dirs |-> EmptyDisk.dirs \cup {p},
        files |-> {[path |-> Append(p, <<"o", "l", "d">> \o DotJson),
                    from |-> Earlier]}]

\* either policy; the subfolders of either file, with or without what an
\* earlier run left
MaterializeInit ==
    /\ AuthInit /\ Quiet
    /\ ev = NoEvent
    /\ col = IdleCollect
    /\ dl \in {IdleDownload(FALSE), IdleDownload(TRUE),
                [IdleDownload(TRUE) EXCEPT !.impl = "getemails"]}
    /\ mat = IdleMat
    /\ disk \in {EmptyDisk} \cup
                (IF dl.createSubfolders THEN {EarlierDisk(dl.impl)} ELSE {})
    /\ bar = NoBar
    /\ kind = IdleKind

MaterializeNext ==
    \/ \E email \in MatEmails, mk \in FsOutcomes :
          DownloadAttachments(email, mk)
    \/ \E outcome \in Outcomes, rm \in FsOutcomes : AttachmentFetched(outcome, rm)

MaterializeSpec == MaterializeInit /\ [][MaterializeNext]_vars

\* ------------------------------------------------- main: the two passes
Name_a_json == <<"a">> \o DotJson
Name_b_json == <<"b">> \o DotJson

\* the emails of the mailbox: one with two .json attachments and a .pdf,
\* one with a text part only, one with one .json attachment
Email_JsonJsonPdf ==
    MakeEmail(<<MakePart(Name_a_json, "att"), MakePart(Name_b_json, "att"),
                MakePart(Name_report, "att")>>)
Email_NoAttachment == MakeEmail(<<MakePart(<<>>, "")>>)
Email_Json == MakeEmail(<<MakePart(Name_a_json, "att")>>)

RunEmails == {Email_JsonJsonPdf, Email_NoAttachment, Email_Json}

\* what getEmailsInDateRange can have collected; message i has the id
\* MessageIds[i]
Mailboxes == {ms \in SeqsUpTo(RunEmails, MaxRunMsgs) : Len(ms) <= Len(MessageIds)}

\* the second loop entered without starting the progress bar
StartSecondPass_NoStart(w) ==
    IF w.dl.messages = <<>>
    THEN [w EXCEPT !.dl.pass = 2, !.dl.idx = 0, !.dl.pc = "done"]
    ELSE [w EXCEPT !.dl.pass = 2, !.dl.idx = 1, !.dl.pc = "fetching",
                   !.dl.processedEmails = 1]

\* lines 598-604: progressBar.start(totalAttachments, 0), and the second
\* loop up to its first getEmailById; lines 617-618 when there is no message
StartSecondPass(w) ==
    LET started == [started |-> TRUE, total |-> w.dl.totalAttachments, value |-> 0]
    IN IF w.dl.messages = <<>>
       THEN [w EXCEPT !.bar = [started EXCEPT !.started = FALSE],
                      !.dl.pass = 2, !.dl.idx = 0, !.dl.pc = "done"]
       ELSE [w EXCEPT !.bar = started,
                      !.dl.pass = 2, !.dl.idx = 1, !.dl.pc = "fetching",
                      !.dl.processedEmails = 1]

\* the first loop moves on to the next message
NextCounted(w) ==
    IF w.dl.idx < Len(w.dl.messages) THEN [w EXCEPT !.dl.idx = @ + 1]
    ELSE StartSecondPass(w)

\* the second loop moves on: processedEmails++ and the next getEmailById, or
\* progressBar.stop() and the summary
NextProcessed(w) ==
    IF w.dl.idx < Len(w.dl.messages)
    THEN [w EXCEPT !.dl.idx = @ + 1, !.dl.pc = "fetching",
                   !.dl.processedEmails = @ + 1]
    ELSE [w EXCEPT !.dl.pc = "done", !.bar.started = FALSE]

\* what main works on
RunWorld == [mat |-> mat, disk |-> disk, bar |-> bar, dl |-> dl]

\* downloadAttachments has got to its next await, or it has ended and main
\* takes its result (line 610) or catches what it threw (line 612)
AfterDownload(w, m) ==
    LET w1 == [w EXCEPT !.mat = m.mat, !.disk = m.disk, !.bar = m.bar]
    IN IF m.mat.pc = "fetching" THEN [w1 EXCEPT !.dl.pc = "downloading"]
       ELSE IF m.mat.pc = "returned"
       THEN NextProcessed([w1 EXCEPT !.dl.downloadedAttachments = m.mat.result])
       ELSE NextProcessed(w1)

Commit_Run(w) ==
    /\ dl' = w.dl
    /\ mat' = w.mat
    /\ disk' = w.disk
    /\ bar' = w.bar
    /\ UNCHANGED <<authVars, run, ev, col, kind>>

\* lines 578-587: the messages are collected and the first getEmailById of
\* the first loop is sent
MainCollected(messages) ==
    /\ dl.pc = "idle"
    /\ LET w == [RunWorld EXCEPT !.dl.messages = messages, !.dl.pass = 1,
                                 !.dl.idx = 1, !.dl.pc = "counting"]
       IN Commit_Run(IF messages = <<>> THEN StartSecondPass(w) ELSE w)

\* the first loop adding the .json parts only to the total
CountFetched_JsonPartsOnly(ok) ==
    /\ dl.pc = "counting"
    /\ LET fullEmail == dl.messages[dl.idx]
           w0 == [RunWorld EXCEPT
                     !.dl.details = @ + 1,
                     !.dl.lastDetail = IF ok THEN "ok" ELSE "failed"]
           jsonParts == {i \in DOMAIN fullEmail.parts :
                            /\ Qualifies(fullEmail.parts[i])
                            /\ isJsonAttachment(fullEmail.parts[i])}
           w == IF ok /\ hasJsonAttachments(fullEmail)
                THEN [w0 EXCEPT
                         !.dl.emailsWithJsonAttachments = @ + 1,
                         !.dl.totalAttachments = @ + Cardinality(jsonParts)]
                ELSE [w0 EXCEPT
                         !.dl.detailFailed = @ \/ ~ok,
                         !.dl.failed = @ \/ ~ok]
       IN Commit_Run(NextCounted(w))

\* lines 587-595: getEmailById of the first loop answers or throws
CountFetched(ok) ==
    /\ dl.pc = "counting"
    /\ LET fullEmail == dl.messages[dl.idx]
           w0 == [RunWorld EXCEPT
                     !.dl.details = @ + 1,
                     !.dl.lastDetail = IF ok THEN "ok" ELSE "failed"]
           w == IF ok /\ hasJsonAttachments(fullEmail)
                THEN [w0 EXCEPT
                         !.dl.emailsWithJsonAttachments = @ + 1,
                         !.dl.totalAttachments = @ + CountQualifying(fullEmail.parts)]
                ELSE [w0 EXCEPT
                         !.dl.detailFailed = @ \/ ~ok,
                         !.dl.failed = @ \/ ~ok]
       IN Commit_Run(NextCounted(w))

\* the second loop without its try/catch: what getEmailById throws ends
\* main in its outer catch
DetailFetched_NoCatch(ok, mk) ==
    /\ dl.pc = "fetching"
    /\ LET fullEmail == dl.messages[dl.idx]
           w == [RunWorld EXCEPT !.dl.failed = @ \/ ~ok,
                                 !.dl.details = @ + 1,
                                 !.dl.lastDetail = IF ok THEN "ok" ELSE "failed"]
           m == DownloadStart(World, fullEmail, MessageIds[dl.idx],
                              dl.downloadedAttachments, mk)
       IN Commit_Run(IF ok /\ hasJsonAttachments(fullEmail)
                     THEN AfterDownload(w, m)
                     ELSE IF ok THEN NextProcessed(w)
                     ELSE [w EXCEPT !.dl.pc = "aborted"])

\* lines 606-614: getEmailById of the second loop answers or throws
DetailFetched(ok, mk) ==
    /\ dl.pc = "fetching"
    /\ LET fullEmail == dl.messages[dl.idx]
           w == [RunWorld EXCEPT !.dl.failed = @ \/ ~ok,
                                 !.dl.details = @ + 1,
                                 !.dl.lastDetail = IF ok THEN "ok" ELSE "failed"]
           m == DownloadStart(World, fullEmail, MessageIds[dl.idx],
                              dl.downloadedAttachments, mk)
       IN Commit_Run(IF ok /\ hasJsonAttachments(fullEmail)
                     THEN AfterDownload(w, m)
                     ELSE NextProcessed(w))

\* attachments.get of the download in progress answers or fails
MainAttachmentFetched(outcome, rm) ==
    /\ dl.pc = "downloading"
    /\ mat.pc = "fetching"
    /\ LET w == [RunWorld EXCEPT !.dl.failed = @ \/ outcome # "ok"]
       IN Commit_Run(AfterDownload(w, Attempt(World, outcome, rm)))

RunNext ==
    \/ \E messages \in Mailboxes : MainCollected(messages)
    \/ \E ok \in BOOLEAN : CountFetched(ok)
    \/ \E ok \in BOOLEAN, mk \in FsOutcomes : DetailFetched(ok, mk)
    \/ \E outcome \in Outcomes, rm \in FsOutcomes : MainAttachmentFetched(outcome, rm)

\* main is past its authorization, createSubfolders is false as in config
RunInit == Init /\ Quiet

RunSpec == RunInit /\ [][RunNext]_vars

\* ------------------------------------------- the startup check of the env
\* `requiredEnvVars.filter(varName => !process.env[varName])`
MissingEnvVars(env) == SelectSeq(RequiredEnvVars, LAMBDA v : env[v] # "set")

\* the check that logs the missing variables and goes on
LoadModule_NoExit ==
    /\ run.pc = "loading"
    /\ run' = [run EXCEPT !.pc = "init", !.message = MissingEnvVars(run.env)]
    /\ UNCHANGED <<authVars, pipeVars>>

\* auth.js 19-33 (the same lines in googleDriveOAuth.js): the module is
\* evaluated; with a variable missing it names the missing ones and calls
\* process.exit(1)
LoadModule ==
    /\ run.pc = "loading"
    /\ LET missingEnvVars == MissingEnvVars(run.env)
       IN run' = IF Len(missingEnvVars) > 0
                 THEN [run EXCEPT !.pc = "exited", !.status = 1,
                                  !.message = missingEnvVars]
                 ELSE [run EXCEPT !.pc = "init"]
    /\ UNCHANGED <<authVars, pipeVars>>

\* the process is started with some environment
StartupInit ==
    /\ ClientInit
    /\ run \in {[InitRun EXCEPT !.pc = "loading", !.env = env] : env \in Envs}
    /\ ev = NoEvent
    /\ col = IdleCollect
    /\ DownloadIdle
    /\ kind = IdleKind

StartupNext ==
    \/ LoadModule
    \/ MainStart
    \/ MainAuthDone
    \/ ProbeOk(RunSlot)
    \/ ProbeFail(RunSlot)
    \/ Listen(RunSlot)

StartupSpec == StartupInit /\ [][StartupNext]_vars

\* ======================================================================
\* Properties
\* ======================================================================
\* how the call that took request r has ended, after the step
FlowAfter(r) == IF req[r].c = Detached THEN req[r].flow ELSE call'[req[r].c].pc
\* the step enters getAccessToken with record c
Entered(c) == call[c].pc \in {"idle", "resolved", "rejected"} /\ call'[c] # call[c]
TookRequest(r) == req[r].st = "unsent" /\ req'[r].st # "unsent"
ExchangeEnded(r) == req[r].st = "exchanging" /\ req'[r].st = "done"

\* C1: a call whose stored credential loaded and whose probe succeeded has
\* returned having issued exactly one probe and nothing else: no listen on the
\* port, no browser launch, no token exchange; this holds for every call, so
\* also for the second of two calls in succession.
C1_CachedCallOnlyProbes ==
    \A c \in Calls :
        call[c].probe = "ok" =>
            /\ call[c].pc = "resolved"
            /\ call[c].loaded = "json"
            /\ call[c].probes = 1
            /\ call[c].listens = 0
            /\ call[c].opens = 0
            /\ call[c].exchanges = 0
            /\ call[c].server = "none"

\* main's call and the following call of getEmailById both returned on the
\* cached path
C1_Witness ==
    /\ run.pc = "msgGet"
    /\ last.r = 0
    /\ call[RunSlot].caller = "getEmailById" /\ call[RunSlot].probe = "ok"
    /\ call[RunSlot].probes = 1 /\ call[RunSlot].listens = 0

\* C2: one authorization flow performs at most one token exchange: a request
\* that arrives after the first one never starts a second getToken.
C2_AtMostOneExchange ==
    \A c \in Calls : call[c].exchanges <= 1

\* C3: a call entered while another call's flow is pending never starts a
\* flow of its own: it never gets a listener (it shares the pending flow or
\* is rejected); and never are two listeners bound on the port.
C3_SecondCallAwaitsOrRejected ==
    /\ \A c \in Calls :
          call[c].overlap =>
              /\ call[c].server \in {"none", "errored"}
              /\ call[c].opens = 0
    /\ Cardinality({c \in Calls : Listening(c)}) <= 1

\* C4: when the exchange for a request with `code` succeeds, the tokens are
\* applied to the client, stored in the credential file, the success page is
\* sent, the listener is closed and then getAccessToken is resolved.
C4_SuccessfulExchangeOrder ==
    [][\A r \in Reqs :
          (ExchangeEnded(r) /\ last'.resp = 200) =>
              /\ last'.r = r
              /\ last'.did = <<"setCredentials", "saveCredentials",
                               "respond", "close", "resolve">>
              /\ clientCreds' = IssuedTokens(r)
              /\ tokenFile' = FileJson(IssuedTokens(r))
              /\ portOwner' # req[r].c
              /\ FlowAfter(r) = "resolved"]_vars

\* C5: a request with an `error` parameter is answered with the failure page
\* (400), the listener is closed, getAccessToken is rejected with an error
\* whose message carries the provider's error string; no token exchange is
\* started and the credential file is left as it was.
C5_ErrorCallbackRejects ==
    [][\A r \in Reqs :
          (TookRequest(r) /\ last'.query.error # "") =>
              LET c == portOwner IN
              /\ last'.r = r /\ last'.c = c
              /\ req'[r].st = "done"
              /\ last'.resp = 400
              /\ last'.did = <<"respond", "close", "reject">>
              /\ call[c].server = "listening" /\ call'[c].server = "closed"
              /\ portOwner' = Free
              /\ call'[c].pc = "rejected"
              /\ call'[c].err.message = <<"Authentication error: ", last'.query.error>>
              /\ call'[c].exchanges = call[c].exchanges
              /\ tokenFile' = tokenFile
              /\ clientCreds' = clientCreds]_vars

C5_Witness ==
    /\ last.query = [code |-> "4/abc", error |-> "invalid_scope"]
    /\ last.resp = 400
    /\ call[last.c].pc = "rejected"
    /\ call[last.c].err.message[2] = "invalid_scope"
    /\ call[last.c].exchanges = 0
    /\ tokenFile = FileJson(StoredTokens)

\* C6: when the exchange for a request with `code` fails, the failure page
\* (500) is sent, the listener is closed and getAccessToken is rejected;
\* the credential file and the client's credentials are left as they were.
C6_FailedExchangeRejects ==
    [][\A r \in Reqs :
          (ExchangeEnded(r) /\ last'.resp = 500) =>
              /\ last'.r = r
              /\ last'.did = <<"respond", "close", "reject">>
              /\ portOwner' # req[r].c
              /\ FlowAfter(r) = "rejected"
              /\ tokenFile' = tokenFile
              /\ clientCreds' = clientCreds]_vars

\* C7: a call made by the run whose bind fails with EADDRINUSE is rejected
\* with that error and never launches the browser; once the run has seen
\* that rejection it has ended in its outer catch, so it makes no further
\* call and never binds again.
C7_BindFailureAbortsRun ==
    /\ call[RunSlot].err = BindError =>
            /\ call[RunSlot].pc = "rejected"
            /\ call[RunSlot].opens = 0
            /\ call[RunSlot].listens = 1
    /\ run.bindFailed => run.pc = "aborted"

\* C8: a failed write of the credential file is not reported as success: the
\* handler run whose save failed does not answer with the success page and
\* does not resolve getAccessToken.
C8_FailedWriteNotSuccess ==
    last.wrote = "failed" =>
        /\ last.resp # 200
        /\ \A i \in DOMAIN last.did : last.did[i] # "resolve"

\* C9: with the credential file missing, unparsable or unreadable, the load
\* returns false without raising and without a probe; the call is then in
\* the same state as with no file at all, and the next thing it does is the
\* bind of the interactive flow.
C9_AbsentCredentialFallsThrough ==
    [][\A c \in Calls :
          /\ (Entered(c)
                /\ tokenFile.kind \in {"missing", "garbage", "unreadable"}) =>
                 /\ call'[c] = [IdleCall EXCEPT !.pc = "noCreds",
                                   !.caller = call'[c].caller,
                                   !.overlap = call'[c].overlap,
                                   !.loaded = tokenFile.kind]
                 /\ clientCreds' = clientCreds
                 /\ tokenFile' = tokenFile
          /\ (call[c].loaded \in {"missing", "garbage", "unreadable"}
                /\ ~Entered(c) /\ call'[c] # call[c]) =>
                 /\ call'[c].probes = 0
                 /\ call[c].pc = "noCreds" =>
                        call'[c].pc \in {"pending", "rejected"} /\ call'[c].listens = 1
                 /\ call'[c].pc = "rejected" => call'[c].listens = 1]_vars

C9_Witness ==
    \E c \in Calls :
        /\ call[c].loaded = "unreadable"
        /\ call[c].probes = 0
        /\ call[c].pc = "pending"
        /\ call[c].server = "listening"
        /\ call[c].listens = 1

\* C10: a failed probe does not reject getAccessToken: the call goes on to
\* the interactive flow, i.e. the next thing it does is the bind, and with
\* the port free it is pending behind its listener.
C10_FailedProbeFallsThrough ==
    [][\A c \in Calls :
          /\ (call[c].pc = "probing" /\ call'[c].probe = "failed") =>
                 /\ call'[c].pc = "noCreds"
                 /\ call'[c].err = NoError
                 /\ call'[c].listens = 0
          /\ (call[c].probe = "failed" /\ call[c].pc = "noCreds"
                /\ call'[c] # call[c]) =>
                 /\ call'[c].listens = 1
                 /\ portOwner = Free =>
                        call'[c].pc = "pending" /\ call'[c].server = "listening"
                           /\ call'[c].opens = 1
                 /\ portOwner # Free =>
                        call'[c].pc = "rejected" /\ call'[c].err.code = "EADDRINUSE"]_vars

C10_Witness ==
    \E c \in Calls :
        /\ call[c].probe = "failed"
        /\ call[c].pc = "pending"
        /\ call[c].server = "listening"
        /\ call[c].opens = 1

\* C11: every 'tokens' event whose tokens include a refresh token is handed to
\* saveCredentials within the event itself, whatever the process is doing,
\* and the credential file then holds exactly those tokens (it is left as it
\* was only when the write itself failed); an event without a refresh token
\* calls nothing and leaves the credential file unchanged.
C11_RefreshTokenPersisted ==
    [][ev'.bit # ev.bit =>
          /\ ev'.refresh =>
                 /\ ev'.did = <<"saveCredentials">>
                 /\ ev'.wrote = "ok" => tokenFile' = FileJson(ev'.tokens)
                 /\ ev'.wrote # "ok" => tokenFile' = tokenFile
          /\ ~ev'.refresh =>
                 /\ ev'.did = <<>>
                 /\ tokenFile' = tokenFile]_vars

\* a rotated refresh token is stored while main is past its authorization,
\* which returned on the cached path: no flow ever ran
C11_Witness ==
    /\ run.pc = "list"
    /\ call[RunSlot].probe = "ok"
    /\ ev.refresh /\ ev.wrote = "ok"
    /\ tokenFile = FileJson(ev.tokens)
    /\ tokenFile # FileJson(StoredTokens)

\* the concatenation of the pages received so far
RECURSIVE Flatten(_)
Flatten(pages) ==
    IF pages = <<>> THEN <<>>
    ELSE Flatten(SubSeq(pages, 1, Len(pages) - 1)) \o pages[Len(pages)].messages

\* C12: after a response, getEmailsInDateRange issues a further list request
\* exactly when that response had a cursor and a non-empty page, and the
\* request carries that cursor; otherwise it returns, also when an empty
\* page came with a cursor.
C12_ContinuesOnlyWithCursorAndPage ==
    [][Len(col'.got) > Len(col.got) =>
          LET resp == col'.got[Len(col'.got)]
              goesOn == Truthy(resp.nextPageToken) /\ Len(resp.messages) > 0
          IN /\ goesOn =>
                   /\ col'.pc = "listing"
                   /\ col'.sent = Append(col.sent, resp.nextPageToken)
             /\ ~goesOn =>
                   /\ col'.pc = "returned"
                   /\ col'.sent = col.sent]_vars

\* a second request was issued, and the empty page with a cursor that
\* answered it ended the collection
C12_Witness ==
    /\ col.pc = "returned"
    /\ Len(col.sent) = 2 /\ Len(col.got) = 2
    /\ col.sent[2] = col.got[1].nextPageToken
    /\ col.got[2].present /\ col.got[2].messages = <<>>
    /\ Truthy(col.got[2].nextPageToken)

\* C13: once a list request has failed, getEmailsInDateRange has returned
\* (not thrown), the failed request was its last one (no retry), and the
\* result is the refs of the pages received before, in order.
C13_FailureReturnsPartial ==
    col.failed =>
        /\ col.pc = "returned"
        /\ Len(col.sent) = Len(col.got) + 1
        /\ col.allEmails = Flatten(col.got)

\* the third request failed after two pages of two refs each
C13_Witness ==
    /\ col.failed
    /\ col.pc = "returned"
    /\ Len(col.got) = 2
    /\ col.allEmails = PageIds(1, 2) \o PageIds(2, 2)

\* a name ending in ".json" in any spelling of the four letters
JsonName(f) ==
    /\ Len(f) >= 5
    /\ f[Len(f) - 4] = "."
    /\ f[Len(f) - 3] \in {"j", "J"}
    /\ f[Len(f) - 2] \in {"s", "S"}
    /\ f[Len(f) - 1] \in {"o", "O"}
    /\ f[Len(f)] \in {"n", "N"}

\* C19: hasJsonAttachments is true exactly for the emails with a part that
\* has an attachmentId and a file name ending in ".json" in any letter
\* case; so a part DATA.JSON with attachmentId makes it true, and an email of
\* parts data.json.txt, or of parts without name or without attachmentId,
\* makes it false.
C19_JsonKindPredicate ==
    kind.pc = "done" =>
        LET parts == kind.email.parts
        IN /\ kind.hasJsonAttachments =
                 (\E i \in 1..Len(parts) :
                     parts[i].attachmentId # "" /\ JsonName(parts[i].filename))
           /\ (\E i \in 1..Len(parts) :
                  parts[i] = MakePart(Stem_DATA \o <<".", "J", "S", "O", "N">>, "att"))
                 => kind.hasJsonAttachments
           /\ (\A i \in 1..Len(parts) :
                  \/ parts[i].filename = Stem_data \o DotJson \o DotTxt
                  \/ parts[i].filename = <<>>
                  \/ parts[i].attachmentId = "")
                 => ~kind.hasJsonAttachments

\* data.json.txt does not count, DATA.JSON next to it does
C19_Witness ==
    /\ kind.pc = "done"
    /\ kind.hasJsonAttachments
    /\ kind.email.parts =
          <<MakePart(Stem_data \o DotJson \o DotTxt, "att"),
            MakePart(Stem_DATA \o <<".", "J", "S", "O", "N">>, "att")>>

\* C18: a call of downloadAttachments for an email whose payload.parts is
\* absent or empty, for which hasAttachments is false, returns at once with
\* the count it was given, sends no attachment request, and leaves the
\* directories, the files and the progress bar as they were.
C18_NoPartsTouchesNothing ==
    /\ ~hasAttachments(NoParts)
    /\ ~hasAttachments(MakeEmail(<<>>))
    /\ [][(mat'.calls # mat.calls /\ mat'.entry \in {"absent", "empty"}) =>
             /\ mat'.pc = "returned"
             /\ mat'.result = mat.result
             /\ mat'.result = mat'.currentCount
             /\ mat'.fetches = 0
             /\ mat'.attachmentCount = 0
             /\ disk' = disk
             /\ bar' = bar]_vars

\* a call for an email without payload.parts has returned the count that an
\* earlier download had left
C18_Witness ==
    /\ mat.pc = "returned"
    /\ mat.entry = "absent"
    /\ mat.calls = 2
    /\ mat.result = 1
    /\ mat.fetches = 0
    /\ disk.files # {}

\* C20: in downloadAttachments the count and the progress bar advance for an
\* attachment only once its file is written, in the order write, count,
\* update; when the request or the write fails neither changes.
C20_CountAfterWrite ==
    [][mat.pc = "fetching" =>
          /\ (mat'.attachmentCount # mat.attachmentCount \/ bar' # bar) =>
                /\ mat'.did = <<"write", "count", "update">>
                /\ [path |-> mat'.path, from |-> mat.emailId] \in disk'.files
                /\ mat'.attachmentCount = mat.attachmentCount + 1
                /\ bar'.value = mat.currentCount + mat'.attachmentCount
          /\ (mat'.outcome # "ok" \/ mat'.did = <<>>) =>
                /\ mat'.attachmentCount = mat.attachmentCount
                /\ bar' = bar
                /\ disk'.files \subseteq disk.files
          /\ mat'.did # <<>> => mat'.did[1] = "write"]_vars

\* a first attachment was written and counted, the write of the second
\* failed and left the count and the bar at one
C20_Witness ==
    /\ mat.outcome = "writeFailed"
    /\ mat.fetches = 2
    /\ mat.attachmentCount = 1
    /\ bar.value = mat.currentCount + 1
    /\ mat.did = <<>>

\* C17: with a subfolder per message, when downloadAttachments has returned
\* without having written an attachment of the message, there is no empty
\* subfolder of that message.
C17_NoEmptySubfolderLeft ==
    (/\ dl.createSubfolders
     /\ mat.pc = "returned"
     /\ mat.attachmentCount = 0)
    => LET p == SubfolderPath(dl.impl, mat.emailId)
       IN p \in disk.dirs =>
             \/ \E f \in disk.files : Under(p, f.path)
             \/ \E q \in disk.dirs : Under(p, q)

\* every request of a call failed and the call returned: the subfolder it
\* had made is gone
C17_Witness ==
    /\ dl.createSubfolders
    /\ mat.pc = "returned"
    /\ mat.attachmentCount = 0
    /\ mat.fetches = 2
    /\ SubfolderPath(dl.impl, mat.emailId) \notin disk.dirs

\* C16: without subfolders, a part named f of message A is written to
\* <attachmentsDir>/A_f, and no write of one message replaces a file of
\* another message.
C16_NoOverwriteAcrossMessages ==
    [][(~dl.createSubfolders /\ mat.pc = "fetching") =>
          /\ \A f \in disk.files : f.from # mat.emailId => f \in disk'.files
          /\ mat'.did # <<>> =>
                mat'.path = Append(AttachmentsDir,
                                   mat.emailId \o <<"_">>
                                       \o mat.email.parts[mat.k].filename)]_vars

\* C14: during the run downloadedAttachments never decreases and never
\* exceeds the totalAttachments that the first loop computed, whatever
\* requests and writes fail in either loop.
C14_DownloadedWithinTotal ==
    /\ [](dl.pass = 2 => dl.downloadedAttachments <= dl.totalAttachments)
    /\ [][dl'.downloadedAttachments >= dl.downloadedAttachments]_vars

\* C15: for the three messages with two .json and one .pdf attachment, no
\* attachment, and one .json attachment, a run without failures ends with
\* emailsWithJsonAttachments = 2, downloadedAttachments = 3 and three files
\* in the attachments directory.
C15_ThreeMessagesThreeFiles ==
    (/\ dl.pc = "done"
     /\ dl.messages = <<Email_JsonJsonPdf, Email_NoAttachment, Email_Json>>
     /\ ~dl.failed)
    => /\ dl.emailsWithJsonAttachments = 2
       /\ dl.downloadedAttachments = 3
       /\ Cardinality({f \in disk.files : Dirname(f.path) = AttachmentsDir}) = 3

C26_MissingEnvExitsAtStartup ==
    /\ [][run.pc = "loading" =>
             IF \E v \in EnvNames : run.env[v] # "set"
             THEN /\ run'.pc = "exited"
                  /\ run'.status = 1
                  /\ {run'.message[i] : i \in 1..Len(run'.message)}
                        = {v \in EnvNames : run.env[v] # "set"}
                  /\ Len(run'.message)
                        = Cardinality({v \in EnvNames : run.env[v] # "set"})
                  /\ UNCHANGED authVars
             ELSE run'.pc = "init" /\ run'.status = 0]_vars
    /\ [](run.pc = "exited" =>
             /\ call = [c \in Calls |-> IdleCall]
             /\ clientCreds = NoCreds
             /\ portOwner \in {Free, OtherProcess})
    /\ [][run.pc = "exited" => UNCHANGED vars]_vars

\* the client secret is absent and the redirect URI empty: the process has
\* exited naming these two
C26_Witness ==
    /\ run.pc = "exited"
    /\ run.status = 1
    /\ run.env["GOOGLE_CLIENT_ID"] = "set"
    /\ run.env["GOOGLE_CLIENT_SECRET"] = "absent"
    /\ run.env["GOOGLE_REDIRECT_URI"] = "empty"
    /\ run.message = <<"GOOGLE_CLIENT_SECRET", "GOOGLE_REDIRECT_URI">>

\* C22: a rejection of getAccessToken, in main or in a getEmailById of the
\* run, ends the run in main's outer catch, after which main sends nothing.
C22_AuthFailureTerminatesRun ==
    [][(run.pc \in {"auth", "msgAuth"} /\ call[RunSlot].pc = "rejected")
          => run'.pc = "aborted"]_vars

\* C24: a run that ends in main's outer catch has reported the number of
\* processed emails and of downloaded attachments.
C24_FailedRunReportsCounts ==
    run.pc = "aborted" =>
        {"processedEmails", "downloadedAttachments"} \subseteq run.report

\* C29: the run enters getAccessToken once, from main before the list
\* request, and never again.
C29_AuthorizedOnceAtStart ==
    [][Entered(RunSlot) =>
          /\ run.pc = "init"
          /\ call'[RunSlot].caller = "main"]_vars

\* C28: while no list request has failed, the first request of
\* getEmailsInDateRange carries no cursor and every later one the cursor of
\* the response before it; the result is the refs of all received pages in
\* the order of the pages, each ref once.
C28_CursorChainAndConcatenation ==
    ~col.failed =>
        /\ Len(col.sent) >= 1 => col.sent[1] = NullToken
        /\ \A k \in 2..Len(col.sent) :
              /\ col.sent[k] = col.got[k - 1].nextPageToken
              /\ col.sent[k] = k - 1
        /\ col.pc = "returned" =>
              /\ Len(col.sent) = Len(col.got)
              /\ col.allEmails = Flatten(col.got)
              /\ \A i, j \in 1..Len(col.allEmails) :
                    col.allEmails[i] = col.allEmails[j] => i = j
              /\ \A k \in 1..Len(col.got) :
                    \A i \in 1..Len(col.got[k].messages) :
                        \E j \in 1..Len(col.allEmails) :
                            col.allEmails[j] = col.got[k].messages[i]

\* three pages of two, two and one refs were collected without a failure
C28_Witness ==
    /\ col.pc = "returned"
    /\ ~col.failed
    /\ Len(col.got) = 3
    /\ col.sent = <<NullToken, 1, 2>>
    /\ col.allEmails = PageIds(1, 2) \o PageIds(2, 2) \o PageIds(3, 1)

\* C23: when getEmailById throws for a message, in the first or the second
\* loop, main goes on with the next message of that loop, or with what
\* follows the loop; every message is fetched in both loops, and a message
\* fetched in the second loop that has a .json attachment is handed to
\* downloadAttachments.
C23_DetailFailureContained ==
    /\ [][(dl.pc \in {"counting", "fetching"} /\ dl'.lastDetail = "failed") =>
             IF dl.idx < Len(dl.messages)
             THEN dl'.pc = dl.pc /\ dl'.idx = dl.idx + 1 /\ dl'.pass = dl.pass
             ELSE IF dl.pc = "counting"
             THEN dl'.pc = "fetching" /\ dl'.idx = 1 /\ dl'.pass = 2
             ELSE dl'.pc = "done"]_vars
    /\ [][(/\ dl.pc = "fetching"
           /\ dl'.lastDetail = "ok"
           /\ hasJsonAttachments(dl.messages[dl.idx])) =>
             /\ mat'.calls = mat.calls + 1
             /\ mat'.emailId = MessageIds[dl.idx]
             /\ mat'.fetches = 1
             /\ dl'.pc = "downloading"]_vars
    /\ [](dl.pc = "done" =>
             /\ dl.details = 2 * Len(dl.messages)
             /\ dl.processedEmails = Len(dl.messages))

\* getEmailById threw for the first message in the second loop, and the
\* second message has been fetched and its download begun
C23_Witness ==
    /\ dl.pc = "downloading"
    /\ dl.pass = 2
    /\ dl.idx = 2
    /\ dl.failed
    /\ dl.messages[1] = Email_Json
    /\ mat.calls = 1
    /\ mat.emailId = MessageIds[2]
    /\ dl.details = Len(dl.messages) + 2

\* C25: during the first loop no attachment is requested, no file written
\* and the bar untouched; the bar is started with total = totalAttachments
\* and value 0 when the first loop is over, and it is only updated after
\* that, its total unchanged.
C25_TwoPasses ==
    /\ [](dl.pass <= 1 => mat = IdleMat /\ disk = EmptyDisk /\ bar = NoBar)
    /\ [][(dl.pass <= 1 /\ dl'.pass = 2) =>
             /\ bar'.total = dl'.totalAttachments
             /\ bar'.value = 0
             /\ dl'.pc # "done" => bar'.started
             /\ mat' = IdleMat /\ disk' = EmptyDisk]_vars
    /\ [][bar'.value # bar.value =>
             /\ bar.started
             /\ dl.pass = 2
             /\ bar'.total = bar.total
             /\ bar'.total = dl.totalAttachments]_vars

\* the bar was started at 0 of 4 and the second attachment of the first
\* message has just been counted
C25_Witness ==
    /\ dl.pc = "downloading"
    /\ dl.idx = 1
    /\ bar.started
    /\ bar.total = 4
    /\ bar.value = 2

\* C27: a pending flow is settled only by a run of the request handler for
\* the one request with `code` or `error` that its listener has taken, no
\* other such request being in progress; a request with neither parameter
\* leaves the flow pending and the listener bound.
C27_SettlesOnlyByFirstCallback ==
    /\ [][\A c \in Calls :
             (call[c].pc = "pending" /\ call'[c].pc # "pending") =>
                /\ last' # last
                /\ last'.c = c
                /\ last'.query.code # "" \/ last'.query.error # ""
                /\ \A q \in Reqs :
                      q # last'.r => ~(req[q].st = "exchanging" /\ req[q].c = c)]_vars
    /\ [][\A r \in Reqs :
             (req[r].st = "unsent" /\ req'[r].st = "ignored") =>
                /\ call' = call
                /\ portOwner' = portOwner
                /\ call[portOwner].pc = "pending"]_vars

\* C31: whenever a call of getAccessToken resolves, after the probe of the
\* loaded credentials or after the code exchange, the credentials set on
\* the shared client are the ones stored in token.json.
C31_ResolvedClientEqualsFile ==
    [][\A c \in Calls :
          (call[c].pc # "resolved" /\ call'[c].pc = "resolved")
          => tokenFile' = FileJson(clientCreds')]_vars

\* C32: per authorization flow resolve or reject is invoked once in total,
\* and server.close() is called in the same handler run as that
\* settlement: every handler run that invokes resolve or reject does so
\* for a flow whose promise is still pending, after closing the listener.
C32_SettledOnceWithClose ==
    [][\A r \in Reqs :
          (req[r].st # "done" /\ req'[r].st = "done")
          => LET settles == {i \in DOMAIN last'.did :
                                 last'.did[i] \in {"resolve", "reject"}}
             IN /\ Cardinality(settles) = 1
                /\ \A i \in settles : i > 1 /\ last'.did[i - 1] = "close"
                /\ last'.c \in Calls
                /\ call[last'.c].pc = "pending"]_vars
C34_DistinctPathsInCall ==
    /\ [][(mat.pc = "fetching" /\ mat'.did # <<>> /\ mat'.did[1] = "write") =>
             ~\E f \in disk.files :
                 f.path = mat'.path /\ f.from = mat.emailId]_vars
    /\ [](mat.pc = "returned" =>
             mat.result - mat.currentCount =
                 Cardinality({f \in disk.files : f.from = mat.emailId}))
\* C35: in a run of main where no request and no write fails, each message
\* having the same detail in both loops, the final downloadedAttachments
\* equals totalAttachments and the progress bar ends at its total.
C35_CleanRunEndsAtTotal ==
    (dl.pc = "done" /\ ~dl.failed) =>
        /\ dl.downloadedAttachments = dl.totalAttachments
        /\ bar.total = dl.totalAttachments
        /\ bar.value = bar.total

\* three messages, one without attachments, four attachments downloaded
C35_Witness ==
    /\ dl.pc = "done"
    /\ ~dl.failed
    /\ dl.processedEmails = 3
    /\ dl.emailsWithJsonAttachments = 2
    /\ dl.totalAttachments = 4
    /\ dl.downloadedAttachments = 4
    /\ bar.value = 4
\* C36: getEmailsInDateRange terminates when the cursor chain of the server
\* is finite: a pending list request leads to the return of the function;
\* once a page without cursor has been received as the k-th response no
\* more than k requests have been sent; a failed request is the last one,
\* the function returning in the step that handles the failure.
C36_CollectTerminates ==
    /\ (col.pc = "listing") ~> (col.pc = "returned")
    /\ [](\A k \in 1..Len(col.got) :
             ~Truthy(col.got[k].nextPageToken) => Len(col.sent) <= k)
    /\ [](Len(col.sent) <= MaxListCalls)
    /\ [][(col'.failed /\ ~col.failed) =>
             (col'.pc = "returned" /\ col'.sent = col.sent)]_vars
    /\ [][col.failed => col'.sent = col.sent]_vars

\* four requests collected the four pages of the mailbox, the last page
\* having no cursor
C36_Witness ==
    /\ col.pc = "returned"
    /\ ~col.failed
    /\ Len(col.sent) = 4
    /\ Len(col.got) = 4
    /\ col.got[4].nextPageToken = NoToken
    /\ Len(col.allEmails) = 4 * MaxPageLen
====
